---- MODULE Spec2Model ----
(***************************************************************************)
(* Block execution core of the node's contract runtime                     *)
(* (node/src/components/contract_runtime/operations.rs) and the            *)
(* seigniorage data model (types/src/auction/auction_info.rs).             *)
(*                                                                         *)
(* Spec      : one run of execute_finalized_block against an execution     *)
(*             engine whose answers are chosen nondeterministically.       *)
(* FairSpec  : Spec, with the function taking its next step whenever it    *)
(*             has one.                                                    *)
(* SpecTwoRuns : a run, then a second run on the same arguments, against   *)
(*             an engine that answers equal requests with equal answers.   *)
(* SpecBytes : the AuctionInfo / SeigniorageAllocation value operations    *)
(*             (push, assign, to_bytes, from_bytes, select) on bounded     *)
(*             inputs.                                                     *)
(* SpecOrd   : the derived order of SeigniorageAllocation.                 *)
(***************************************************************************)
EXTENDS Integers, Sequences, FiniteSets, TLC

VARIABLES
    pc,                         \* position inside execute_finalized_block
    debug_assertions,           \* build flag: is debug_assert_eq! compiled in
    execution_pre_state,        \* argument: ExecutionPreState
    finalized_block,            \* argument: FinalizedBlock
    deploys,                    \* argument: Vec<Deploy>
    next_deploy,                \* number of deploys the for loop has consumed
    state_root_hash,            \* local: let mut state_root_hash
    execution_results,          \* local: HashMap<DeployHash, (DeployHeader, ExecutionResult)>
    result,                     \* local: what execute() returned for the current deploy
    maybe_step_result_success,  \* local: Option<StepSuccess>
    chain_height,               \* metrics.chain_height gauge
    outcome,                    \* what execute_finalized_block returned
    calls,                      \* history: the engine calls issued, in order
    global_state,               \* history: the effects the store has applied, in order
    answers,                    \* history: what the engine answered to which request
    first_run,                  \* history: the calls and the outcome of an earlier run
    auction_info,               \* an AuctionInfo value (seigniorage_allocations)
    bytes,                      \* the byte buffer last produced by to_bytes
    encoded,                    \* what that buffer is the encoding of
    decoded,                    \* the result of the last from_bytes
    selected,                   \* the result of the last select
    compared                    \* allocations and the result of comparing them

orch_vars == <<pc, debug_assertions, execution_pre_state, finalized_block, deploys,
               next_deploy, state_root_hash, execution_results, result,
               maybe_step_result_success, chain_height, outcome, calls, global_state,
               answers, first_run>>

replay_vars == <<answers, first_run>>

data_vars == <<auction_info, bytes, encoded, decoded, selected, compared>>

vars == <<orch_vars, data_vars>>

----------------------------------------------------------------------------
(* Bounds of the model. *)

\* longest deploy list of a block
MaxDeploys == 2
\* state roots are 0..MaxRoot
MaxRoot == 1
\* longest ExecutionResults answer of the engine
MaxResults == 2
\* height of the finalized block
BlockHeight == 1
\* the root the block is executed on
PreStateRoot == 0
\* most allocations pushed to an AuctionInfo
MaxAllocations == 2
\* leading bytes written over an encoding's tag are 0..MaxTag
MaxTag == 3

----------------------------------------------------------------------------
(* Option and Result values. *)

None == [some |-> FALSE]
Some(x) == [some |-> TRUE, value |-> x]

Ok(x) == [ok |-> TRUE, value |-> x]
Err(e) == [ok |-> FALSE, error |-> e]

----------------------------------------------------------------------------
(* The values the arguments and the engine's answers are drawn from. *)

Roots == 0 .. MaxRoot

DeployHashes == {"d1", "d2"}

\* Deploy: its id is the hash of its header
Deploy(hash) == [id |-> hash, header |-> <<"header", hash>>]

DeployLists == UNION {[1 .. n -> {Deploy(h) : h \in DeployHashes}] : n \in 0 .. MaxDeploys}

\* EraReport { equivocators, rewards, inactive_validators }
EraReports ==
    { [equivocators |-> <<"v2">>, rewards |-> [v \in {"v1"} |-> 3],
       inactive_validators |-> <<>>],
      [equivocators |-> <<>>, rewards |-> [v \in {"v1", "v2"} |-> 5],
       inactive_validators |-> <<"v2">>] }

\* ExecutionEffect { operations, transforms } paired with the gas cost of the run:
\* a run that wrote nothing and cost 10, a run that wrote k1 and cost 20
EffectsAndCosts ==
    { [effect |-> [transforms |-> [k \in {} |-> "Identity"]], cost |-> 10],
      [effect |-> [transforms |-> [k \in {"k1"} |-> "Write"]], cost |-> 20] }

\* engine_state::ExecutionResult
EngineExecutionResults ==
    { [tag |-> "Success", effect |-> x.effect, cost |-> x.cost] : x \in EffectsAndCosts }
    \cup
    { [tag |-> "Failure", error |-> "Revert", effect |-> x.effect, cost |-> x.cost] :
        x \in EffectsAndCosts }

\* ExecutionResults = VecDeque<ExecutionResult>
ExecutionResultsLists == UNION {[1 .. n -> EngineExecutionResults] : n \in 0 .. MaxResults}

\* engine_state::Error
EngineErrors == {"RootNotFound", "Storage"}

StepErrors == {"AuctionError"}

\* what a step computes: the next era's validator weights and its effect
StepComputations ==
    { [next_era_validators |-> [v \in {"v1"} |-> 7],
       execution_effect |-> [transforms |-> [k \in {"k1"} |-> "Write"]]],
      [next_era_validators |-> [v \in {"v1", "v2"} |-> 7],
       execution_effect |-> [transforms |-> [k \in {} |-> "Identity"]]] }

StepSuccesses ==
    { [post_state_hash |-> r,
       next_era_validators |-> c.next_era_validators,
       execution_effect |-> c.execution_effect] : r \in Roots, c \in StepComputations }

ProtocolVersion == "1.0.0"

----------------------------------------------------------------------------
(* Helpers of execute_finalized_block. *)

\* an insert that keeps the entry already stored under the key
InsertKeepingFirst(map, key, value) ==
    [k \in DOMAIN map \cup {key} |-> IF k \in DOMAIN map THEN map[k] ELSE value]

\* HashMap::insert: a later insert under the same key replaces the entry
Insert(map, key, value) ==
    [k \in DOMAIN map \cup {key} |-> IF k = key THEN value ELSE map[k]]

EmptyMap == [k \in {} |-> None]

\* ExecuteRequest built on the block's pre-state root instead of the current root
ExecuteRequestOnPreState(root, block_time, deploy, protocol_version, proposer) ==
    [parent_state_hash |-> execution_pre_state.pre_state_root_hash,
     block_time |-> block_time,
     deploys |-> <<deploy.id>>,
     protocol_version |-> protocol_version,
     proposer |-> proposer]

\* one request carrying every deploy of the block
ExecuteRequestOfWholeBlock(root, block_time, deploy, protocol_version, proposer) ==
    [parent_state_hash |-> root,
     block_time |-> block_time,
     deploys |-> [j \in 1 .. Len(deploys) |-> deploys[j].id],
     protocol_version |-> protocol_version,
     proposer |-> proposer]

\* the request's block time shifted by what the chain height gauge holds, a
\* value an earlier run has left behind
ExecuteRequestReadingGauge(root, block_time, deploy, protocol_version, proposer) ==
    [parent_state_hash |-> root,
     block_time |-> block_time + chain_height,
     deploys |-> <<deploy.id>>,
     protocol_version |-> protocol_version,
     proposer |-> proposer]

\* ExecuteRequest::new(state_root_hash.into(), block_time, vec![DeployItem::from(deploy)],
\*                     protocol_version, finalized_block.proposer().clone())
ExecuteRequest(root, block_time, deploy, protocol_version, proposer) ==
    [parent_state_hash |-> root,
     block_time |-> block_time,
     deploys |-> <<deploy.id>>,
     protocol_version |-> protocol_version,
     proposer |-> proposer]

\* the first result taken and the rest dropped, instead of exactly_one
FirstOfMany(results) ==
    IF Len(results) >= 1
    THEN Ok(results[1])
    ELSE Err("MoreThanOneExecutionResult")

\* execution_results.into_iter().exactly_one()
\*     .map_err(|_| BlockExecutionError::MoreThanOneExecutionResult)
ExactlyOne(results) ==
    IF Len(results) = 1
    THEN Ok(results[1])
    ELSE Err("MoreThanOneExecutionResult")

\* casper_types::ExecutionResult::from(&engine_state::ExecutionResult):
\* the tag, the effect and the cost are kept, the error becomes its message
ExecutionResultFrom(ee) ==
    IF ee.tag = "Success"
    THEN [tag |-> "Success", effect |-> ee.effect, cost |-> ee.cost]
    ELSE [tag |-> "Failure", effect |-> ee.effect, cost |-> ee.cost,
          error_message |-> <<"message", ee.error>>]

\* the Failure arm yielding an empty effect instead of the failed run's effect
ExecutionEffectOfSuccessOnly(ee) ==
    CASE ee.tag = "Success" -> ee.effect
      [] ee.tag = "Failure" -> [transforms |-> [k \in {} |-> "Identity"]]

\* the match of commit_execution_effects: both arms yield the effect
ExecutionEffectOf(ee) ==
    CASE ee.tag = "Success" -> ee.effect
      [] ee.tag = "Failure" -> ee.effect

\* reward_items: one RewardItem per (vid, value) of era_report.rewards
RewardItems(rewards) ==
    { [validator_id |-> v, value |-> rewards[v]] : v \in DOMAIN rewards }

\* evict_items: one EvictItem per inactive validator, in order
EvictItems(inactive_validators) ==
    [k \in 1 .. Len(inactive_validators) |-> [validator_id |-> inactive_validators[k]]]

\* the step request built on the block's pre-state root instead of the root the
\* loop ended on
StepRequestOnPreStateRoot(protocol_version, pre_state_root_hash, era_report, era_end_timestamp_millis, next_era_id) ==
    [pre_state_hash |-> execution_pre_state.pre_state_root_hash,
     protocol_version |-> protocol_version,
     reward_items |-> RewardItems(era_report.rewards),
     slash_items |-> <<>>,
     evict_items |-> EvictItems(era_report.inactive_validators),
     run_auction |-> TRUE,
     next_era_id |-> next_era_id,
     era_end_timestamp_millis |-> era_end_timestamp_millis]

\* the step request slashing the equivocators the era report lists
StepRequestSlashingEquivocators(protocol_version, pre_state_root_hash, era_report, era_end_timestamp_millis, next_era_id) ==
    [pre_state_hash |-> pre_state_root_hash,
     protocol_version |-> protocol_version,
     reward_items |-> RewardItems(era_report.rewards),
     slash_items |-> [k \in 1 .. Len(era_report.equivocators) |->
                        [validator_id |-> era_report.equivocators[k]]],
     evict_items |-> EvictItems(era_report.inactive_validators),
     run_auction |-> TRUE,
     next_era_id |-> next_era_id,
     era_end_timestamp_millis |-> era_end_timestamp_millis]

\* the StepRequest built by commit_step
StepRequest(protocol_version, pre_state_root_hash, era_report, era_end_timestamp_millis, next_era_id) ==
    [pre_state_hash |-> pre_state_root_hash,
     protocol_version |-> protocol_version,
     reward_items |-> RewardItems(era_report.rewards),
     slash_items |-> <<>>,
     evict_items |-> EvictItems(era_report.inactive_validators),
     run_auction |-> TRUE,
     next_era_id |-> next_era_id,
     era_end_timestamp_millis |-> era_end_timestamp_millis]

\* EraId::successor
Successor(era_id) == era_id + 1

\* Block::new: the header links to the parent, carries the state root and the
\* finalized block's data, and an era end made of the era report and the next
\* era's validators; a report without validators (or the reverse) is an error
BlockNew(parent_hash, parent_seed, root, fb, next_era_validator_weights, protocol_version) ==
    IF fb.era_report.some # next_era_validator_weights.some
    THEN Err("CouldNotCreateEraEnd")
    ELSE Ok([parent_hash |-> parent_hash,
             parent_seed |-> parent_seed,
             state_root_hash |-> root,
             height |-> fb.height,
             era_id |-> fb.era_id,
             timestamp |-> fb.timestamp,
             proposer |-> fb.proposer,
             deploy_hashes |-> fb.deploy_hashes,
             era_report |-> fb.era_report,
             next_era_validator_weights |-> next_era_validator_weights,
             protocol_version |-> protocol_version])

\* the value of `expr?` leaving execute_finalized_block early
Returned(error) == [status |-> "Err", error |-> error]

Running == [status |-> "Running"]

Panicked == [status |-> "Panic"]

----------------------------------------------------------------------------
(* The state before execute_finalized_block is entered. *)

\* state_root_hash before line 47 binds it: a value that is no root
NoRoot == -1

OrchIdle ==
    /\ pc = "idle"
    /\ debug_assertions = FALSE
    /\ execution_pre_state = None
    /\ finalized_block = None
    /\ deploys = <<>>
    /\ next_deploy = 0
    /\ state_root_hash = NoRoot
    /\ execution_results = EmptyMap
    /\ result = None
    /\ maybe_step_result_success = None
    /\ chain_height = 0
    /\ outcome = Running
    /\ calls = <<>>
    /\ global_state = <<>>
    /\ answers = {}
    /\ first_run = None

DataIdle ==
    /\ auction_info = <<>>
    /\ bytes = <<>>
    /\ encoded = None
    /\ decoded = None
    /\ selected = None
    /\ compared = None

Init ==
    /\ pc = "start"
    /\ debug_assertions \in BOOLEAN
    /\ deploys \in DeployLists
    /\ \E height \in {BlockHeight, BlockHeight + 1} :
          execution_pre_state =
              [next_block_height |-> height,
               pre_state_root_hash |-> PreStateRoot,
               parent_hash |-> "parent",
               parent_seed |-> "seed"]
    /\ \E report \in {None} \cup {Some(r) : r \in EraReports} :
          finalized_block =
              [height |-> BlockHeight,
               era_id |-> 4,
               timestamp |-> 1000,
               proposer |-> "v1",
               deploy_hashes |-> [k \in 1 .. Len(deploys) |-> deploys[k].id],
               era_report |-> report]
    /\ next_deploy = 0
    /\ state_root_hash = NoRoot
    /\ execution_results = EmptyMap
    /\ result = None
    /\ maybe_step_result_success = None
    /\ chain_height = 0
    /\ outcome = Running
    /\ calls = <<>>
    /\ global_state = <<>>
    /\ answers = {}
    /\ first_run = None
    /\ DataIdle

----------------------------------------------------------------------------
(* execute_finalized_block, one action per engine call or step. *)

\* what the engine may answer to a request: any of the responses, unless
\* answers holds the answer it gave to the same request before
Engine(op, request, responses) ==
    LET known == {a \in answers : a.op = op /\ a.request = request}
    IN IF known = {} THEN responses ELSE {a.response : a \in known}

\* the height checked with assert_eq!, in every build
StartAlwaysAsserting ==
    /\ pc = "start"
    /\ IF execution_pre_state.next_block_height # finalized_block.height
       THEN /\ pc' = "done"
            /\ outcome' = Panicked
            /\ UNCHANGED <<state_root_hash, execution_results>>
       ELSE /\ pc' = "loop"
            /\ state_root_hash' = execution_pre_state.pre_state_root_hash
            /\ execution_results' = EmptyMap
            /\ UNCHANGED outcome
    /\ UNCHANGED <<debug_assertions, execution_pre_state, finalized_block, deploys,
                   next_deploy, result, maybe_step_result_success, chain_height,
                   calls, global_state, data_vars>>

\* lines 40-51: destructure the pre-state, debug_assert_eq! on the height,
\* initialise the root and the result map
Start ==
    /\ pc = "start"
    /\ IF debug_assertions
          /\ execution_pre_state.next_block_height # finalized_block.height
       THEN /\ pc' = "done"
            /\ outcome' = Panicked
            /\ UNCHANGED <<state_root_hash, execution_results>>
       ELSE /\ pc' = "loop"
            /\ state_root_hash' = execution_pre_state.pre_state_root_hash
            /\ execution_results' = EmptyMap
            /\ UNCHANGED outcome
    /\ UNCHANGED <<debug_assertions, execution_pre_state, finalized_block, deploys,
                   next_deploy, result, maybe_step_result_success, chain_height,
                   calls, global_state, data_vars>>

\* a failed execute call is issued again instead of ending the run
ExecuteRetrying ==
    /\ pc = "loop"
    /\ next_deploy < Len(deploys)
    /\ LET deploy == deploys[next_deploy + 1]
           request == ExecuteRequest(state_root_hash, finalized_block.timestamp, deploy,
                                     ProtocolVersion, finalized_block.proposer)
       IN \E response \in {Err(e) : e \in EngineErrors}
                           \cup {Ok(l) : l \in ExecutionResultsLists} :
            /\ calls' = Append(calls, [op |-> "run_execute",
                                       deploy |-> next_deploy + 1,
                                       request |-> request,
                                       response |-> IF response.ok
                                                    THEN Ok("ExecutionResults")
                                                    ELSE response])
            /\ IF response.ok
               THEN /\ result' = Some(response.value)
                    /\ pc' = "commit"
               ELSE /\ result' = None
                    /\ pc' = "loop"
            /\ UNCHANGED outcome
    /\ UNCHANGED <<debug_assertions, execution_pre_state, finalized_block, deploys,
                   next_deploy, state_root_hash, execution_results,
                   maybe_step_result_success, chain_height, global_state, data_vars>>

\* lines 52-68: the next deploy of the for loop: build its request, call execute
Execute ==
    /\ pc = "loop"
    /\ next_deploy < Len(deploys)
    /\ LET deploy == deploys[next_deploy + 1]
           request == ExecuteRequest(state_root_hash, finalized_block.timestamp, deploy,
                                     ProtocolVersion, finalized_block.proposer)
       IN \E response \in Engine("run_execute", request,
                                  {Err(e) : e \in EngineErrors}
                                  \cup {Ok(l) : l \in ExecutionResultsLists}) :
            /\ calls' = Append(calls, [op |-> "run_execute",
                                       deploy |-> next_deploy + 1,
                                       request |-> request,
                                       response |-> IF response.ok
                                                    THEN Ok("ExecutionResults")
                                                    ELSE response])
            /\ IF response.ok
               THEN /\ result' = Some(response.value)
                    /\ pc' = "commit"
                    /\ UNCHANGED outcome
               ELSE /\ result' = None
                    /\ pc' = "done"
                    /\ outcome' = Returned(response.error)
    /\ UNCHANGED <<debug_assertions, execution_pre_state, finalized_block, deploys,
                   next_deploy, state_root_hash, execution_results,
                   maybe_step_result_success, chain_height, global_state, data_vars>>

\* lines 72-75 and commit_execution_effects (132-172) with commit (174-187):
\* exactly one result or MoreThanOneExecutionResult; the effect of either arm is
\* applied to the current root; the result is inserted under the deploy's hash
\* and the root advances
CommitExecutionEffects ==
    /\ pc = "commit"
    /\ LET deploy == deploys[next_deploy + 1]
           one == ExactlyOne(result.value)
       IN IF ~one.ok
          THEN /\ pc' = "done"
               /\ outcome' = Returned(one.error)
               /\ UNCHANGED <<next_deploy, state_root_hash, execution_results, calls,
                              global_state>>
          ELSE LET execution_result == ExecutionResultFrom(one.value)
                   effects == ExecutionEffectOf(one.value).transforms
               IN \E response \in Engine("apply_effect",
                                          [pre_state_hash |-> state_root_hash,
                                           effects |-> effects],
                                          {Err(e) : e \in EngineErrors}
                                          \cup {Ok(r) : r \in Roots}) :
                    /\ calls' = Append(calls, [op |-> "apply_effect",
                                               deploy |-> next_deploy + 1,
                                               pre_state_hash |-> state_root_hash,
                                               effects |-> effects,
                                               response |-> response])
                    /\ IF response.ok
                       THEN /\ global_state' =
                                   Append(global_state, [pre_state_hash |-> state_root_hash,
                                                         effects |-> effects,
                                                         post_state_hash |-> response.value])
                            /\ execution_results' =
                                   Insert(execution_results, deploy.id,
                                          <<deploy.header, execution_result>>)
                            /\ state_root_hash' = response.value
                            /\ next_deploy' = next_deploy + 1
                            /\ pc' = "loop"
                            /\ UNCHANGED outcome
                       ELSE /\ pc' = "done"
                            /\ outcome' = Returned(response.error)
                            /\ UNCHANGED <<next_deploy, state_root_hash, execution_results,
                                           global_state>>
    /\ result' = None
    /\ UNCHANGED <<debug_assertions, execution_pre_state, finalized_block, deploys,
                   maybe_step_result_success, chain_height, data_vars>>

\* no step run whether or not the block has an era report
SkipStepAlways ==
    /\ pc = "loop"
    /\ next_deploy = Len(deploys)
    /\ maybe_step_result_success' = None
    /\ pc' = "metric"
    /\ UNCHANGED <<debug_assertions, execution_pre_state, finalized_block, deploys,
                   next_deploy, state_root_hash, execution_results, result, chain_height,
                   outcome, calls, global_state, data_vars>>

\* lines 79-80: the block has no era report, no step is run
SkipStep ==
    /\ pc = "loop"
    /\ next_deploy = Len(deploys)
    /\ ~finalized_block.era_report.some
    /\ maybe_step_result_success' = None
    /\ pc' = "metric"
    /\ UNCHANGED <<debug_assertions, execution_pre_state, finalized_block, deploys,
                   next_deploy, state_root_hash, execution_results, result, chain_height,
                   outcome, calls, global_state, data_vars>>

\* a failed step taken as no step, instead of returned with `?`
CommitStepIgnoringError ==
    /\ pc = "loop"
    /\ next_deploy = Len(deploys)
    /\ finalized_block.era_report.some
    /\ LET request == StepRequest(ProtocolVersion, state_root_hash,
                                  finalized_block.era_report.value,
                                  finalized_block.timestamp,
                                  Successor(finalized_block.era_id))
       IN \E response \in {Err(e) : e \in StepErrors} \cup {Ok(s) : s \in StepSuccesses} :
            /\ calls' = Append(calls, [op |-> "commit_step", request |-> request,
                                       response |-> response])
            /\ IF response.ok
               THEN /\ global_state' =
                           Append(global_state,
                                  [pre_state_hash |-> request.pre_state_hash,
                                   effects |-> response.value.execution_effect.transforms,
                                   post_state_hash |-> response.value.post_state_hash])
                    /\ maybe_step_result_success' = Some(response.value)
               ELSE /\ maybe_step_result_success' = None
                    /\ UNCHANGED global_state
            /\ pc' = "metric"
            /\ UNCHANGED outcome
    /\ UNCHANGED <<debug_assertions, execution_pre_state, finalized_block, deploys,
                   next_deploy, state_root_hash, execution_results, result, chain_height,
                   data_vars>>

\* a failing step undoes the commits of the block's deploys
CommitStepRollingBack ==
    /\ pc = "loop"
    /\ next_deploy = Len(deploys)
    /\ finalized_block.era_report.some
    /\ LET request == StepRequest(ProtocolVersion, state_root_hash,
                                  finalized_block.era_report.value,
                                  finalized_block.timestamp,
                                  Successor(finalized_block.era_id))
       IN \E response \in {Err(e) : e \in StepErrors} \cup {Ok(s) : s \in StepSuccesses} :
            /\ calls' = Append(calls, [op |-> "commit_step", request |-> request,
                                       response |-> response])
            /\ IF response.ok
               THEN /\ global_state' =
                           Append(global_state,
                                  [pre_state_hash |-> request.pre_state_hash,
                                   effects |-> response.value.execution_effect.transforms,
                                   post_state_hash |-> response.value.post_state_hash])
                    /\ maybe_step_result_success' = Some(response.value)
                    /\ pc' = "metric"
                    /\ UNCHANGED outcome
               ELSE /\ pc' = "done"
                    /\ outcome' = Returned(response.error)
                    /\ global_state' = <<>>
                    /\ UNCHANGED maybe_step_result_success
    /\ UNCHANGED <<debug_assertions, execution_pre_state, finalized_block, deploys,
                   next_deploy, state_root_hash, execution_results, result, chain_height,
                   data_vars>>

\* lines 81-89 and commit_step (203-250): the block has an era report, the step
\* request is built from it and committed by the engine
CommitStep ==
    /\ pc = "loop"
    /\ next_deploy = Len(deploys)
    /\ finalized_block.era_report.some
    /\ LET request == StepRequest(ProtocolVersion, state_root_hash,
                                  finalized_block.era_report.value,
                                  finalized_block.timestamp,
                                  Successor(finalized_block.era_id))
       IN \E response \in Engine("commit_step", request,
                                  {Err(e) : e \in StepErrors}
                                  \cup {Ok(s) : s \in StepSuccesses}) :
            /\ calls' = Append(calls, [op |-> "commit_step", request |-> request,
                                       response |-> response])
            /\ IF response.ok
               THEN /\ global_state' =
                           Append(global_state,
                                  [pre_state_hash |-> request.pre_state_hash,
                                   effects |-> response.value.execution_effect.transforms,
                                   post_state_hash |-> response.value.post_state_hash])
                    /\ maybe_step_result_success' = Some(response.value)
                    /\ pc' = "metric"
                    /\ UNCHANGED outcome
               ELSE /\ pc' = "done"
                    /\ outcome' = Returned(response.error)
                    /\ UNCHANGED <<global_state, maybe_step_result_success>>
    /\ UNCHANGED <<debug_assertions, execution_pre_state, finalized_block, deploys,
                   next_deploy, state_root_hash, execution_results, result, chain_height,
                   data_vars>>

\* the gauge set from the pre-state's next block height instead of the block's
GaugeValueOfPreState(block_height) == execution_pre_state.next_block_height

\* block_height as i64: the value itself for every height below 2^63
GaugeValue(block_height) == block_height

\* the block built on the last transaction's root even when a step ran
BlockPartsOnDeployRoot(maybe_step, root) ==
    IF maybe_step.some
    THEN [state_root_hash |-> root,
          next_era_validators |-> Some(maybe_step.value.next_era_validators),
          maybe_step_execution_effect |-> Some(maybe_step.value.execution_effect)]
    ELSE [state_root_hash |-> root,
          next_era_validators |-> None,
          maybe_step_execution_effect |-> None]

\* lines 96-127: what the block is built from: the step's root, validators and
\* effect if a step ran, else the current root, no validators and no effect
BlockParts(maybe_step, root) ==
    IF maybe_step.some
    THEN [state_root_hash |-> maybe_step.value.post_state_hash,
          next_era_validators |-> Some(maybe_step.value.next_era_validators),
          maybe_step_execution_effect |-> Some(maybe_step.value.execution_effect)]
    ELSE [state_root_hash |-> root,
          next_era_validators |-> None,
          maybe_step_execution_effect |-> None]

\* lines 92-128: set the chain height gauge to the block's height, build the
\* block and return it with the results and the step effect
BuildBlock ==
    /\ pc = "metric"
    /\ chain_height' = GaugeValue(finalized_block.height)
    /\ LET parts == BlockParts(maybe_step_result_success, state_root_hash)
           block == BlockNew(execution_pre_state.parent_hash,
                             execution_pre_state.parent_seed,
                             parts.state_root_hash, finalized_block,
                             parts.next_era_validators, ProtocolVersion)
       IN outcome' =
            IF block.ok
            THEN [status |-> "Ok",
                  block |-> block.value,
                  execution_results |-> execution_results,
                  maybe_step_execution_effect |-> parts.maybe_step_execution_effect]
            ELSE Returned(block.error)
    /\ pc' = "done"
    /\ UNCHANGED <<debug_assertions, execution_pre_state, finalized_block, deploys,
                   next_deploy, state_root_hash, execution_results, result,
                   maybe_step_result_success, calls, global_state, data_vars>>

\* a step of a run; replay_vars are written by SpecTwoRuns only
Next ==
    \/ Start /\ UNCHANGED replay_vars
    \/ Execute /\ UNCHANGED replay_vars
    \/ CommitExecutionEffects /\ UNCHANGED replay_vars
    \/ SkipStep /\ UNCHANGED replay_vars
    \/ CommitStep /\ UNCHANGED replay_vars
    \/ BuildBlock /\ UNCHANGED replay_vars

Spec == Init /\ [][Next]_vars

\* the arguments for which the height precondition holds in a build that does
\* not check it, or fails in a build that checks it; next_block_height is read
\* by the assertion of line 46 only
InitHeightChecked ==
    /\ Init
    /\ debug_assertions <=>
           execution_pre_state.next_block_height # finalized_block.height

\* the function is a sequential piece of code: as long as it has not returned
\* and the call it waits for returns, it takes its next step (every step of
\* Next moves pc)
FairSpec == InitHeightChecked /\ [][Next]_vars /\ WF_pc(Next)

----------------------------------------------------------------------------
(* Two runs on the same arguments against an engine that answers equal     *)
(* requests with equal answers.                                            *)

\* what the engine was asked by a call of the history
RequestOf(call) ==
    IF call.op = "apply_effect"
    THEN [pre_state_hash |-> call.pre_state_hash, effects |-> call.effects]
    ELSE call.request

\* the engine keeps to its answers: the call this step has issued, if any, is
\* recorded with its answer (for execute, the whole list of results), which
\* Engine gives again to an equal request
Answered ==
    IF Len(calls') = Len(calls)
    THEN answers' = answers
    ELSE LET call == calls'[Len(calls')]
         IN answers' = answers
                       \cup {[op |-> call.op,
                               request |-> RequestOf(call),
                               response |-> IF call.op = "run_execute" /\ call.response.ok
                                            THEN Ok(result'.value)
                                            ELSE call.response]}

\* execute_finalized_block has returned and is called again with the same
\* arguments: its locals are fresh, the store, the gauge and the engine are
\* the ones the first run left
Restart ==
    /\ pc = "done"
    /\ ~first_run.some
    /\ first_run' = Some([calls |-> calls, outcome |-> outcome])
    /\ pc' = "start"
    /\ next_deploy' = 0
    /\ state_root_hash' = NoRoot
    /\ execution_results' = EmptyMap
    /\ result' = None
    /\ maybe_step_result_success' = None
    /\ outcome' = Running
    /\ calls' = <<>>
    /\ UNCHANGED <<debug_assertions, execution_pre_state, finalized_block, deploys,
                   chain_height, global_state, answers, data_vars>>

NextTwoRuns ==
    \/ Start /\ Answered /\ UNCHANGED first_run
    \/ Execute /\ Answered /\ UNCHANGED first_run
    \/ CommitExecutionEffects /\ Answered /\ UNCHANGED first_run
    \/ SkipStep /\ Answered /\ UNCHANGED first_run
    \/ CommitStep /\ Answered /\ UNCHANGED first_run
    \/ BuildBlock /\ Answered /\ UNCHANGED first_run
    \/ Restart

SpecTwoRuns == InitHeightChecked /\ [][NextTwoRuns]_vars

----------------------------------------------------------------------------
(* bytesrepr of the field types of a SeigniorageAllocation. *)

\* <u8>::to_bytes
U8ToBytes(n) == <<n>>

\* <u8>::from_bytes
U8FromBytes(buffer) ==
    IF Len(buffer) < 1
    THEN Err("EarlyEndOfStream")
    ELSE Ok([value |-> buffer[1], rem |-> Tail(buffer)])

\* <u32>::to_bytes: four bytes, little endian
U32ToBytes(n) ==
    <<n % 256, (n \div 256) % 256, (n \div 65536) % 256, (n \div 16777216) % 256>>

\* <u32>::from_bytes
U32FromBytes(buffer) ==
    IF Len(buffer) < 4
    THEN Err("EarlyEndOfStream")
    ELSE Ok([value |-> buffer[1] + 256 * buffer[2] + 65536 * buffer[3]
                       + 16777216 * buffer[4],
             rem |-> SubSeq(buffer, 5, Len(buffer))])

RECURSIVE LittleEndian(_)
\* the bytes of n, least significant first, without the zero bytes at the top
LittleEndian(n) ==
    IF n = 0 THEN <<>> ELSE <<n % 256>> \o LittleEndian(n \div 256)

RECURSIVE FromLittleEndian(_)
FromLittleEndian(digits) ==
    IF digits = <<>> THEN 0 ELSE digits[1] + 256 * FromLittleEndian(Tail(digits))

\* U512::to_bytes: the number of significant bytes, then these bytes
U512ToBytes(n) == <<Len(LittleEndian(n))>> \o LittleEndian(n)

\* a U512 is at most 64 bytes wide
U512_MAX_BYTES == 64

\* U512::from_bytes
U512FromBytes(buffer) ==
    IF Len(buffer) < 1
    THEN Err("EarlyEndOfStream")
    ELSE IF buffer[1] > U512_MAX_BYTES
    THEN Err("Formatting")
    ELSE IF Len(buffer) < 1 + buffer[1]
    THEN Err("EarlyEndOfStream")
    ELSE Ok([value |-> FromLittleEndian(SubSeq(buffer, 2, 1 + buffer[1])),
             rem |-> SubSeq(buffer, 2 + buffer[1], Len(buffer))])

ED25519_TAG == 1
SECP256K1_TAG == 2
ED25519_LENGTH == 32
SECP256K1_LENGTH == 33

\* PublicKey::to_bytes: the variant's tag, then the raw key
PublicKeyToBytes(key) ==
    IF key.variant = "Ed25519"
    THEN <<ED25519_TAG>> \o key.raw
    ELSE <<SECP256K1_TAG>> \o key.raw

\* PublicKey::from_bytes
PublicKeyFromBytes(buffer) ==
    IF Len(buffer) < 1
    THEN Err("EarlyEndOfStream")
    ELSE IF buffer[1] = ED25519_TAG
    THEN IF Len(buffer) < 1 + ED25519_LENGTH
         THEN Err("EarlyEndOfStream")
         ELSE Ok([value |-> [variant |-> "Ed25519",
                             raw |-> SubSeq(buffer, 2, 1 + ED25519_LENGTH)],
                  rem |-> SubSeq(buffer, 2 + ED25519_LENGTH, Len(buffer))])
    ELSE IF buffer[1] = SECP256K1_TAG
    THEN IF Len(buffer) < 1 + SECP256K1_LENGTH
         THEN Err("EarlyEndOfStream")
         ELSE Ok([value |-> [variant |-> "Secp256k1",
                             raw |-> SubSeq(buffer, 2, 1 + SECP256K1_LENGTH)],
                  rem |-> SubSeq(buffer, 2 + SECP256K1_LENGTH, Len(buffer))])
    ELSE Err("Formatting")

\* the public keys and amounts allocations are made of
PublicKeys ==
    { [variant |-> "Ed25519", raw |-> [k \in 1 .. ED25519_LENGTH |-> 7]],
      [variant |-> "Secp256k1", raw |-> [k \in 1 .. SECP256K1_LENGTH |-> 9]] }

Amounts == {0, 300}

----------------------------------------------------------------------------
(* SeigniorageAllocation. *)

SEIGNIORAGE_ALLOCATION_VALIDATOR_TAG == 0
SEIGNIORAGE_ALLOCATION_DELEGATOR_TAG == 1

\* SeigniorageAllocation::validator
ValidatorAllocation(validator_public_key, amount) ==
    [variant |-> "Validator",
     validator_public_key |-> validator_public_key,
     amount |-> amount]

\* SeigniorageAllocation::delegator
DelegatorAllocation(delegator_public_key, validator_public_key, amount) ==
    [variant |-> "Delegator",
     delegator_public_key |-> delegator_public_key,
     validator_public_key |-> validator_public_key,
     amount |-> amount]

SeigniorageAllocations ==
    { ValidatorAllocation(v, a) : v \in PublicKeys, a \in Amounts }
    \cup
    { DelegatorAllocation(d, v, a) : d \in PublicKeys, v \in PublicKeys, a \in Amounts }

\* SeigniorageAllocation::tag
AllocationTag(allocation) ==
    IF allocation.variant = "Validator"
    THEN SEIGNIORAGE_ALLOCATION_VALIDATOR_TAG
    ELSE SEIGNIORAGE_ALLOCATION_DELEGATOR_TAG

\* a Delegator written with its validator key before its delegator key
AllocationToBytesKeysSwapped(allocation) ==
    U8ToBytes(AllocationTag(allocation))
    \o IF allocation.variant = "Validator"
       THEN PublicKeyToBytes(allocation.validator_public_key)
            \o U512ToBytes(allocation.amount)
       ELSE PublicKeyToBytes(allocation.validator_public_key)
            \o PublicKeyToBytes(allocation.delegator_public_key)
            \o U512ToBytes(allocation.amount)

\* impl ToBytes for SeigniorageAllocation: the tag, then the fields in order
AllocationToBytes(allocation) ==
    U8ToBytes(AllocationTag(allocation))
    \o IF allocation.variant = "Validator"
       THEN PublicKeyToBytes(allocation.validator_public_key)
            \o U512ToBytes(allocation.amount)
       ELSE PublicKeyToBytes(allocation.delegator_public_key)
            \o PublicKeyToBytes(allocation.validator_public_key)
            \o U512ToBytes(allocation.amount)

\* the Validator arm of from_bytes
ValidatorFromBytes(buffer) ==
    LET key == PublicKeyFromBytes(buffer)
    IN IF ~key.ok THEN key
       ELSE LET amount == U512FromBytes(key.value.rem)
            IN IF ~amount.ok THEN amount
               ELSE Ok([value |-> ValidatorAllocation(key.value.value, amount.value.value),
                        rem |-> amount.value.rem])

\* the Delegator arm of from_bytes
DelegatorFromBytes(buffer) ==
    LET delegator == PublicKeyFromBytes(buffer)
    IN IF ~delegator.ok THEN delegator
       ELSE LET validator == PublicKeyFromBytes(delegator.value.rem)
            IN IF ~validator.ok THEN validator
               ELSE LET amount == U512FromBytes(validator.value.rem)
                    IN IF ~amount.ok THEN amount
                       ELSE Ok([value |-> DelegatorAllocation(delegator.value.value,
                                                              validator.value.value,
                                                              amount.value.value),
                                rem |-> amount.value.rem])

\* every tag other than the Validator's read as a Delegator
AllocationFromBytesAnyTag(buffer) ==
    LET tag == U8FromBytes(buffer)
    IN IF ~tag.ok THEN tag
       ELSE IF tag.value.value = SEIGNIORAGE_ALLOCATION_VALIDATOR_TAG
       THEN ValidatorFromBytes(tag.value.rem)
       ELSE DelegatorFromBytes(tag.value.rem)

\* impl FromBytes for SeigniorageAllocation
AllocationFromBytes(buffer) ==
    LET tag == U8FromBytes(buffer)
    IN IF ~tag.ok THEN tag
       ELSE IF tag.value.value = SEIGNIORAGE_ALLOCATION_VALIDATOR_TAG
       THEN ValidatorFromBytes(tag.value.rem)
       ELSE IF tag.value.value = SEIGNIORAGE_ALLOCATION_DELEGATOR_TAG
       THEN DelegatorFromBytes(tag.value.rem)
       ELSE Err("Formatting")

----------------------------------------------------------------------------
(* AuctionInfo. *)

\* AuctionInfo::new
AuctionInfoNew == <<>>

RECURSIVE ConcatToBytes(_)
ConcatToBytes(allocations) ==
    IF allocations = <<>>
    THEN <<>>
    ELSE AllocationToBytes(Head(allocations)) \o ConcatToBytes(Tail(allocations))

\* Vec<SeigniorageAllocation>::to_bytes: the length as u32, then each element
VecToBytes(allocations) == U32ToBytes(Len(allocations)) \o ConcatToBytes(allocations)

RECURSIVE ReadAllocations(_, _, _)
\* count more elements read from the buffer, after those already read
ReadAllocations(count, read, buffer) ==
    IF count = 0
    THEN Ok([value |-> read, rem |-> buffer])
    ELSE LET next == AllocationFromBytes(buffer)
         IN IF ~next.ok THEN next
            ELSE ReadAllocations(count - 1, Append(read, next.value.value), next.value.rem)

\* Vec<SeigniorageAllocation>::from_bytes
VecFromBytes(buffer) ==
    LET count == U32FromBytes(buffer)
    IN IF ~count.ok THEN count
       ELSE ReadAllocations(count.value.value, <<>>, count.value.rem)

\* impl ToBytes for AuctionInfo
AuctionInfoToBytes(info) == VecToBytes(info)

\* impl FromBytes for AuctionInfo
AuctionInfoFromBytes(buffer) == VecFromBytes(buffer)

\* a Delegator matched on either of its keys
MatchesEitherKey(allocation, public_key) ==
    IF allocation.variant = "Validator"
    THEN public_key = allocation.validator_public_key
    ELSE \/ public_key = allocation.delegator_public_key
         \/ public_key = allocation.validator_public_key

\* the filter closure of AuctionInfo::select
Matches(allocation, public_key) ==
    IF allocation.variant = "Validator"
    THEN public_key = allocation.validator_public_key
    ELSE public_key = allocation.delegator_public_key

RECURSIVE Filter(_, _)
\* self.seigniorage_allocations.iter().filter(..), collected
Filter(allocations, public_key) ==
    IF allocations = <<>>
    THEN <<>>
    ELSE IF Matches(Head(allocations), public_key)
    THEN <<Head(allocations)>> \o Filter(Tail(allocations), public_key)
    ELSE Filter(Tail(allocations), public_key)

\* AuctionInfo::select
Select(info, public_key) == Filter(info, public_key)

----------------------------------------------------------------------------
(* The order of SeigniorageAllocation: #[derive(Ord, PartialOrd)]. *)

\* u8::cmp, U512::cmp: the order of the numbers
NumberCmp(x, y) == IF x < y THEN "Less" ELSE IF x > y THEN "Greater" ELSE "Equal"

\* Ordering::then: the first ordering unless it is Equal
Then(first, second) == IF first # "Equal" THEN first ELSE second

\* Vec<u8>::cmp: the first position that differs decides, else the lengths
BytesCmp(s, t) ==
    LET common == 1 .. (IF Len(s) < Len(t) THEN Len(s) ELSE Len(t))
        differing == {i \in common : s[i] # t[i]}
    IN IF differing = {}
       THEN NumberCmp(Len(s), Len(t))
       ELSE LET i == CHOOSE i \in differing : \A j \in differing : i <= j
            IN NumberCmp(s[i], t[i])

PublicKeyTag(key) == IF key.variant = "Ed25519" THEN ED25519_TAG ELSE SECP256K1_TAG

\* PublicKey::cmp: the tags, then the raw keys
PublicKeyCmp(a, b) ==
    Then(NumberCmp(PublicKeyTag(a), PublicKeyTag(b)), BytesCmp(a.raw, b.raw))

\* the position of the variant in the enum's declaration
VariantIndex(allocation) == IF allocation.variant = "Validator" THEN 0 ELSE 1

\* a Delegator compared by its validator key before its delegator key
AllocationCmpValidatorKeyFirst(a, b) ==
    IF VariantIndex(a) # VariantIndex(b)
    THEN NumberCmp(VariantIndex(a), VariantIndex(b))
    ELSE IF a.variant = "Validator"
    THEN Then(PublicKeyCmp(a.validator_public_key, b.validator_public_key),
              NumberCmp(a.amount, b.amount))
    ELSE Then(PublicKeyCmp(a.validator_public_key, b.validator_public_key),
              Then(PublicKeyCmp(a.delegator_public_key, b.delegator_public_key),
                   NumberCmp(a.amount, b.amount)))

\* the derived Ord::cmp: the variants in declaration order, then the fields of
\* the variant in declaration order
AllocationCmp(a, b) ==
    IF VariantIndex(a) # VariantIndex(b)
    THEN NumberCmp(VariantIndex(a), VariantIndex(b))
    ELSE IF a.variant = "Validator"
    THEN Then(PublicKeyCmp(a.validator_public_key, b.validator_public_key),
              NumberCmp(a.amount, b.amount))
    ELSE Then(PublicKeyCmp(a.delegator_public_key, b.delegator_public_key),
              Then(PublicKeyCmp(a.validator_public_key, b.validator_public_key),
                   NumberCmp(a.amount, b.amount)))

\* the keys compared: two Ed25519 keys that differ in their last byte and a
\* Secp256k1 key
OrdPublicKeys ==
    PublicKeys
    \cup { [variant |-> "Ed25519",
            raw |-> [k \in 1 .. ED25519_LENGTH |-> IF k = ED25519_LENGTH THEN 8 ELSE 7]] }

OrdAllocations ==
    { ValidatorAllocation(v, a) : v \in OrdPublicKeys, a \in Amounts }
    \cup
    { DelegatorAllocation(d, v, a) : d \in OrdPublicKeys, v \in OrdPublicKeys, a \in Amounts }

\* three allocations to compare
InitOrd ==
    /\ OrchIdle
    /\ auction_info = AuctionInfoNew
    /\ bytes = <<>>
    /\ encoded = None
    /\ decoded = None
    /\ selected = None
    /\ \E left \in OrdAllocations, middle \in OrdAllocations, right \in OrdAllocations :
          compared = Some([left |-> left, middle |-> middle, right |-> right,
                           orderings |-> None])

\* left.cmp(&middle), middle.cmp(&left), middle.cmp(&right), left.cmp(&right)
CompareAllocations ==
    /\ compared.some
    /\ ~compared.value.orderings.some
    /\ LET left == compared.value.left
           middle == compared.value.middle
           right == compared.value.right
       IN compared' =
            Some([compared.value EXCEPT
                    !.orderings = Some([left_middle |-> AllocationCmp(left, middle),
                                        middle_left |-> AllocationCmp(middle, left),
                                        middle_right |-> AllocationCmp(middle, right),
                                        left_right |-> AllocationCmp(left, right)])])
    /\ UNCHANGED <<orch_vars, auction_info, bytes, encoded, decoded, selected>>

NextOrd == CompareAllocations

SpecOrd == InitOrd /\ [][NextOrd]_vars

----------------------------------------------------------------------------
(* The operations on an AuctionInfo value and on byte buffers. *)

InitBytes ==
    /\ OrchIdle
    /\ auction_info = AuctionInfoNew
    /\ bytes = <<>>
    /\ encoded = None
    /\ decoded = None
    /\ selected = None
    /\ compared = None

\* the allocation inserted in front of those already there
PushAllocationInFront ==
    /\ Len(auction_info) < MaxAllocations
    /\ \E allocation \in SeigniorageAllocations :
          auction_info' = <<allocation>> \o auction_info
    /\ bytes' = <<>>
    /\ encoded' = None
    /\ decoded' = None
    /\ selected' = None
    /\ UNCHANGED <<orch_vars, compared>>

\* auction_info.seigniorage_allocations_mut().push(allocation)
PushAllocation ==
    /\ Len(auction_info) < MaxAllocations
    /\ \E allocation \in SeigniorageAllocations :
          auction_info' = Append(auction_info, allocation)
    /\ bytes' = <<>>
    /\ encoded' = None
    /\ decoded' = None
    /\ selected' = None
    /\ UNCHANGED <<orch_vars, compared>>

\* the vectors assigned through the mutable reference: none or one allocation
AssignedAllocations == {<<>>} \cup {<<allocation>> : allocation \in SeigniorageAllocations}

\* *auction_info.seigniorage_allocations_mut() = allocations: the reference the
\* accessor hands out is a &mut Vec, which can be assigned as a whole
AssignAllocations ==
    /\ \E allocations \in AssignedAllocations :
          auction_info' = allocations
    /\ bytes' = <<>>
    /\ encoded' = None
    /\ decoded' = None
    /\ selected' = None
    /\ UNCHANGED <<orch_vars, compared>>

\* auction_info.to_bytes()
EncodeAuctionInfo ==
    /\ bytes' = AuctionInfoToBytes(auction_info)
    /\ encoded' = Some([type |-> "AuctionInfo", value |-> auction_info])
    /\ decoded' = None
    /\ selected' = None
    /\ UNCHANGED <<auction_info, orch_vars, compared>>

\* allocation.to_bytes() for an allocation of auction_info
EncodeAllocation ==
    /\ \E k \in 1 .. Len(auction_info) :
          /\ bytes' = AllocationToBytes(auction_info[k])
          /\ encoded' = Some([type |-> "SeigniorageAllocation", value |-> auction_info[k]])
    /\ decoded' = None
    /\ selected' = None
    /\ UNCHANGED <<auction_info, orch_vars, compared>>

\* a buffer that differs from an encoding in its leading byte
ReplaceTag ==
    /\ encoded.some
    /\ \E tag \in 0 .. MaxTag :
          /\ tag # bytes[1]
          /\ bytes' = [bytes EXCEPT ![1] = tag]
    /\ encoded' = None
    /\ decoded' = None
    /\ selected' = None
    /\ UNCHANGED <<auction_info, orch_vars, compared>>

\* a buffer that is an encoding without its last byte
Truncate ==
    /\ encoded.some
    /\ bytes' = SubSeq(bytes, 1, Len(bytes) - 1)
    /\ encoded' = None
    /\ decoded' = None
    /\ selected' = None
    /\ UNCHANGED <<auction_info, orch_vars, compared>>

\* AuctionInfo::from_bytes(&bytes)
DecodeAuctionInfo ==
    /\ bytes # <<>>
    /\ decoded' = Some([type |-> "AuctionInfo",
                        source |-> encoded,
                        input |-> bytes,
                        result |-> AuctionInfoFromBytes(bytes)])
    /\ selected' = None
    /\ UNCHANGED <<auction_info, bytes, encoded, orch_vars, compared>>

\* SeigniorageAllocation::from_bytes(&bytes)
DecodeAllocation ==
    /\ bytes # <<>>
    /\ decoded' = Some([type |-> "SeigniorageAllocation",
                        source |-> encoded,
                        input |-> bytes,
                        result |-> AllocationFromBytes(bytes)])
    /\ selected' = None
    /\ UNCHANGED <<auction_info, bytes, encoded, orch_vars, compared>>

\* auction_info.select(public_key), collected
SelectAllocations ==
    /\ \E public_key \in PublicKeys :
          selected' = Some([public_key |-> public_key,
                            allocations |-> Select(auction_info, public_key)])
    /\ bytes' = <<>>
    /\ encoded' = None
    /\ decoded' = None
    /\ UNCHANGED <<auction_info, orch_vars, compared>>

NextBytes ==
    \/ PushAllocation
    \/ AssignAllocations
    \/ EncodeAuctionInfo
    \/ EncodeAllocation
    \/ ReplaceTag
    \/ Truncate
    \/ DecodeAuctionInfo
    \/ DecodeAllocation
    \/ SelectAllocations

SpecBytes == InitBytes /\ [][NextBytes]_vars

----------------------------------------------------------------------------
(* Reading the history of engine calls. *)

CallsOf(op) == {k \in 1 .. Len(calls) : calls[k].op = op}

FailedCalls == {k \in 1 .. Len(calls) : ~calls[k].response.ok}

\* the apply_effect calls the store answered with a new root
Commits == {k \in CallsOf("apply_effect") : calls[k].response.ok}

\* the root the store returned for the commit of deploy number j
CommittedRoot(j) ==
    calls[CHOOSE k \in Commits : calls[k].deploy = j].response.value

\* the root deploy number j has to be executed and committed on
ThreadedRoot(j) ==
    IF j = 1 THEN execution_pre_state.pre_state_root_hash ELSE CommittedRoot(j - 1)

\* every deploy of the block was executed and its effects committed
AllDeploysCommitted ==
    /\ pc # "start"
    /\ outcome.status # "Panic"
    /\ \A j \in 1 .. Len(deploys) : \E k \in Commits : calls[k].deploy = j

StepCalls == CallsOf("commit_step")

----------------------------------------------------------------------------
(* C1. Sequential root threading: the root in the execute request of deploy   *)
(* number j, and the root its effects are committed on, is the root the store *)
(* returned for the commit of deploy j-1, and the block's pre-state root for  *)
(* j = 1; no transaction is executed or committed on any other root.          *)
C1_RootThreading ==
    \A k \in 1 .. Len(calls) :
        /\ calls[k].op = "run_execute" =>
              /\ calls[k].deploy > 1 =>
                    \E c \in Commits : c < k /\ calls[c].deploy = calls[k].deploy - 1
              /\ calls[k].request.parent_state_hash = ThreadedRoot(calls[k].deploy)
        /\ calls[k].op = "apply_effect" =>
              /\ k > 1
              /\ calls[k - 1].op = "run_execute"
              /\ calls[k - 1].deploy = calls[k].deploy
              /\ calls[k].pre_state_hash = ThreadedRoot(calls[k].deploy)

\* the second deploy was executed and committed on a root other than the pre-state's
C1_Witness ==
    \E k \in CallsOf("apply_effect") :
        /\ calls[k].deploy = 2
        /\ calls[k].pre_state_hash # execution_pre_state.pre_state_root_hash
        /\ calls[k - 1].request.parent_state_hash = calls[k].pre_state_hash

(* C2. Single-result invariant: when the raw outcome handed to                *)
(* commit_execution_effects has zero or two or more entries, the call fails   *)
(* with MoreThanOneExecutionResult, apply_effect is not invoked and the       *)
(* global state is unchanged.                                                 *)
C2_SingleResult ==
    [][(pc = "commit" /\ Len(result.value) # 1) =>
          /\ pc' = "done"
          /\ outcome' = Returned("MoreThanOneExecutionResult")
          /\ calls' = calls
          /\ global_state' = global_state
          /\ state_root_hash' = state_root_hash
          /\ execution_results' = execution_results]_vars

\* the second deploy's execution yielded no single result; the first stays committed
C2_Witness ==
    /\ pc = "done"
    /\ outcome = Returned("MoreThanOneExecutionResult")
    /\ Len(global_state) = 1
    /\ calls[Len(calls)].op = "run_execute"

(* C3. Failure is non-fatal: a single Failure outcome has its effect set      *)
(* committed on the current root as a Success would; when the store accepts   *)
(* it, a Failure result with the outcome's cost is recorded under the         *)
(* deploy's hash, the root advances to the store's answer and the loop goes   *)
(* on without an error being returned.                                        *)
C3_FailureNonFatal ==
    [][(pc = "commit" /\ Len(result.value) = 1 /\ result.value[1].tag = "Failure") =>
          LET ee == result.value[1]
              deploy == deploys[next_deploy + 1]
              call == calls'[Len(calls')]
          IN /\ Len(calls') = Len(calls) + 1
             /\ call.op = "apply_effect"
             /\ call.pre_state_hash = state_root_hash
             /\ call.effects = ee.effect.transforms
             /\ call.response.ok =>
                   /\ global_state' = Append(global_state,
                                             [pre_state_hash |-> state_root_hash,
                                              effects |-> ee.effect.transforms,
                                              post_state_hash |-> call.response.value])
                   /\ deploy.id \in DOMAIN execution_results'
                   /\ execution_results'[deploy.id][1] = deploy.header
                   /\ execution_results'[deploy.id][2].tag = "Failure"
                   /\ execution_results'[deploy.id][2].cost = ee.cost
                   /\ execution_results'[deploy.id][2].effect = ee.effect
                   /\ state_root_hash' = call.response.value
                   /\ next_deploy' = next_deploy + 1
                   /\ pc' = "loop"
                   /\ outcome' = Running]_vars

\* a block was returned whose first deploy failed, writing k1, and whose second
\* deploy was executed after it
C3_Witness ==
    /\ outcome.status = "Ok"
    /\ Len(deploys) = 2
    /\ deploys[1].id # deploys[2].id
    /\ outcome.execution_results[deploys[1].id][2].tag = "Failure"
    /\ outcome.execution_results[deploys[1].id][2].cost = 20
    /\ global_state[1].effects = [k \in {"k1"} |-> "Write"]

(* C4. Step gating: commit_step is invoked only for a block with an era       *)
(* report, at most once, and only after every deploy was executed and         *)
(* committed; once the deploys are done it has been invoked exactly when the  *)
(* block has a report; a block without a report is returned with no next-era  *)
(* validators and no step effect.                                             *)
C4_StepGating ==
    /\ Cardinality(StepCalls) <= 1
    /\ \A k \in StepCalls :
          /\ finalized_block.era_report.some
          /\ k = Len(calls)
          /\ Cardinality(Commits) = Len(deploys)
          /\ Cardinality(CallsOf("run_execute")) = Len(deploys)
    /\ (pc = "metric" \/ (pc = "done" /\ outcome.status = "Ok")) =>
          (StepCalls # {} <=> finalized_block.era_report.some)
    /\ (pc = "done" /\ outcome.status = "Ok" /\ ~finalized_block.era_report.some) =>
          /\ outcome.block.next_era_validator_weights = None
          /\ outcome.maybe_step_execution_effect = None

\* a block with an era report and two deploys was returned after one step
C4_Witness ==
    /\ pc = "done"
    /\ outcome.status = "Ok"
    /\ finalized_block.era_report.some
    /\ Len(deploys) = 2
    /\ Cardinality(StepCalls) = 1

(* C5. Final block construction: a returned block references the root the     *)
(* step returned, carries the step's next-era validators and comes with       *)
(* Some(step effect) if the step ran; otherwise it references the root the    *)
(* last deploy's commit returned (the pre-state root for no deploys), with no *)
(* validators and no step effect.                                             *)
C5_FinalBlock ==
    (pc = "done" /\ outcome.status = "Ok") =>
        IF StepCalls # {}
        THEN LET step == calls[CHOOSE k \in StepCalls : TRUE].response.value
             IN /\ outcome.block.state_root_hash = step.post_state_hash
                /\ outcome.block.next_era_validator_weights = Some(step.next_era_validators)
                /\ outcome.maybe_step_execution_effect = Some(step.execution_effect)
        ELSE /\ outcome.block.state_root_hash = ThreadedRoot(Len(deploys) + 1)
             /\ outcome.block.next_era_validator_weights = None
             /\ outcome.maybe_step_execution_effect = None

\* a block was returned on the step's root, which is not the last deploy's root
C5_Witness ==
    /\ pc = "done"
    /\ outcome.status = "Ok"
    /\ StepCalls # {}
    /\ Len(deploys) >= 1
    /\ outcome.block.state_root_hash # state_root_hash
    /\ outcome.block.state_root_hash = global_state[Len(global_state)].post_state_hash

(* C6. Encoding round trip: decoding the bytes to_bytes produced for a         *)
(* SeigniorageAllocation (either variant) or an AuctionInfo (the empty one    *)
(* too) yields an equal value and an empty remainder.                         *)
C6_RoundTrip ==
    (/\ decoded.some
     /\ decoded.value.source.some
     /\ decoded.value.source.value.type = decoded.value.type) =>
        /\ decoded.value.result.ok
        /\ decoded.value.result.value.value = decoded.value.source.value.value
        /\ decoded.value.result.value.rem = <<>>

\* an AuctionInfo of a Validator and a Delegator with two different keys and a
\* non-zero amount was encoded and decoded
C6_Witness ==
    /\ decoded.some
    /\ decoded.value.type = "AuctionInfo"
    /\ decoded.value.source.some
    /\ decoded.value.source.value.type = "AuctionInfo"
    /\ decoded.value.source.value.value = auction_info
    /\ decoded.value.result.ok
    /\ Len(auction_info) = 2
    /\ auction_info[1].variant = "Validator"
    /\ auction_info[2].variant = "Delegator"
    /\ auction_info[2].delegator_public_key # auction_info[2].validator_public_key
    /\ auction_info[2].amount = 300

(* C7. Tag rejection: decoding a SeigniorageAllocation from a buffer whose    *)
(* leading byte is neither 0 nor 1 fails with a formatting error; a Validator *)
(* encodes as tag 0, its key, its amount, and a Delegator as tag 1, its       *)
(* delegator key, its validator key, its amount.                              *)
C7_TagRejection ==
    /\ (/\ decoded.some
        /\ decoded.value.type = "SeigniorageAllocation"
        /\ decoded.value.input[1] \notin {0, 1}) =>
           decoded.value.result = Err("Formatting")
    /\ (encoded.some /\ encoded.value.type = "SeigniorageAllocation") =>
           LET allocation == encoded.value.value
           IN IF allocation.variant = "Validator"
              THEN bytes = <<0>> \o PublicKeyToBytes(allocation.validator_public_key)
                                 \o U512ToBytes(allocation.amount)
              ELSE bytes = <<1>> \o PublicKeyToBytes(allocation.delegator_public_key)
                                 \o PublicKeyToBytes(allocation.validator_public_key)
                                 \o U512ToBytes(allocation.amount)

\* the encoding of an allocation, its tag overwritten by 3, was refused
C7_Witness ==
    /\ decoded.some
    /\ decoded.value.type = "SeigniorageAllocation"
    /\ decoded.value.input[1] = 3
    /\ Len(decoded.value.input) > ED25519_LENGTH
    /\ decoded.value.result = Err("Formatting")

\* the positions of the allocations select has to return for public_key
MatchingPositions(info, public_key) ==
    {k \in 1 .. Len(info) :
        \/ info[k].variant = "Validator" /\ info[k].validator_public_key = public_key
        \/ info[k].variant = "Delegator" /\ info[k].delegator_public_key = public_key}

(* C8. Selection correctness: select(pk) returns exactly the allocations      *)
(* whose validator key (Validator) or delegator key (Delegator) is pk, in     *)
(* insertion order, once per occurrence; a Delegator matching only by its     *)
(* validator key is not returned.                                             *)
C8_Selection ==
    selected.some =>
        LET positions == MatchingPositions(auction_info, selected.value.public_key)
            found == selected.value.allocations
        IN /\ Len(found) = Cardinality(positions)
           /\ \A k \in positions :
                 found[Cardinality({i \in positions : i <= k})] = auction_info[k]

\* select returned the second of two allocations and left out the first, a
\* Delegator whose validator key only is the selected key
C8_Witness ==
    /\ selected.some
    /\ Len(auction_info) = 2
    /\ auction_info[1].variant = "Delegator"
    /\ auction_info[1].validator_public_key = selected.value.public_key
    /\ auction_info[1].delegator_public_key # selected.value.public_key
    /\ selected.value.allocations = <<auction_info[2]>>

(* C9. Fatal errors abort the whole block: a failed execute, commit or step   *)
(* is the last call issued, and the run has ended returning that error: no    *)
(* block, no result map, no later execute, commit or step.                    *)
C9_FatalAbort ==
    \A k \in FailedCalls :
        /\ k = Len(calls)
        /\ pc = "done"
        /\ outcome = Returned(calls[k].response.error)

\* the commit of the second deploy's effects failed and ended the run
C9_Witness ==
    /\ pc = "done"
    /\ Len(calls) = 4
    /\ calls[4].op = "apply_effect"
    /\ ~calls[4].response.ok
    /\ outcome = Returned(calls[4].response.error)
    /\ Len(deploys) = 2
    /\ finalized_block.era_report.some

StepFailed == \E k \in StepCalls : ~calls[k].response.ok

(* C10 as claimed. The gauge equals the block's height at the end of every    *)
(* run in which all deploys were executed and committed, whether the step     *)
(* succeeded, failed or was not run.                                          *)
C10_GaugeRegardlessOfStep ==
    (pc = "done" /\ AllDeploysCommitted) => chain_height = finalized_block.height

(* C10 as amended. At the end of a run in which all deploys were executed and *)
(* committed, the gauge equals the block's height if the step succeeded or    *)
(* was not run; if the step failed the gauge was not set and keeps its        *)
(* previous value.                                                            *)
C10_GaugeUnlessStepFailed ==
    (pc = "done" /\ AllDeploysCommitted) =>
        IF StepFailed
        THEN chain_height = 0
        ELSE chain_height = finalized_block.height

\* a run with a deploy and a successful step ended with the gauge at the
\* block's height, which is not the pre-state's height
C10_Witness ==
    /\ pc = "done"
    /\ AllDeploysCommitted
    /\ Len(deploys) >= 1
    /\ \E k \in StepCalls : calls[k].response.ok
    /\ chain_height = finalized_block.height
    /\ execution_pre_state.next_block_height # finalized_block.height

----------------------------------------------------------------------------
\* C12: whenever the step is run, the root its request carries is the root the
\* store returned for the commit of the last deploy of the block, or the
\* pre-state root when the block has no deploys; it is the root of no earlier
\* point of the chain unless that one is the same root.
C12_StepRoot ==
    \A k \in StepCalls :
        /\ AllDeploysCommitted
        /\ calls[k].request.pre_state_hash = ThreadedRoot(Len(deploys) + 1)
        /\ calls[k].request.pre_state_hash =
               IF deploys = <<>>
               THEN execution_pre_state.pre_state_root_hash
               ELSE CommittedRoot(Len(deploys))

\* the step ran on the root of the second commit, which is neither the root of
\* the first commit nor the pre-state root
C12_Witness ==
    /\ Len(deploys) = 2
    /\ StepCalls # {}
    /\ \A k \in StepCalls :
         /\ calls[k].request.pre_state_hash = CommittedRoot(2)
         /\ calls[k].request.pre_state_hash # CommittedRoot(1)
         /\ calls[k].request.pre_state_hash # execution_pre_state.pre_state_root_hash

\* C13: the request built by commit_step has one reward item per entry of the
\* era report's rewards and one evict item per inactive validator, nothing
\* added and nothing dropped, no slash item even when the report lists
\* equivocators, run_auction set, the block's timestamp as the era end
\* timestamp and the block's era id plus one as the next era id.
C13_StepRequestContents ==
    \A k \in StepCalls :
        LET request == calls[k].request
            era_report == finalized_block.era_report.value
        IN /\ finalized_block.era_report.some
           /\ Cardinality(request.reward_items) = Cardinality(DOMAIN era_report.rewards)
           /\ \A v \in DOMAIN era_report.rewards :
                  [validator_id |-> v, value |-> era_report.rewards[v]]
                      \in request.reward_items
           /\ Len(request.evict_items) = Len(era_report.inactive_validators)
           /\ \A i \in 1 .. Len(request.evict_items) :
                  request.evict_items[i].validator_id = era_report.inactive_validators[i]
           /\ request.slash_items = <<>>
           /\ request.run_auction = TRUE
           /\ request.era_end_timestamp_millis = finalized_block.timestamp
           /\ request.next_era_id = finalized_block.era_id + 1

\* a step was requested for a report that lists an equivocator and rewards
C13_Witness ==
    /\ StepCalls # {}
    /\ finalized_block.era_report.some
    /\ finalized_block.era_report.value.equivocators # <<>>
    /\ DOMAIN finalized_block.era_report.value.rewards # {}
    /\ \A k \in StepCalls : calls[k].request.slash_items = <<>>

----------------------------------------------------------------------------
(* What the store holds, read against the history of engine calls. *)

IsPrefix(s, t) == Len(s) <= Len(t) /\ SubSeq(t, 1, Len(s)) = s

\* what a call the store answered with a new root has written
WriteOf(call) ==
    IF call.op = "apply_effect"
    THEN [pre_state_hash |-> call.pre_state_hash,
          effects |-> call.effects,
          post_state_hash |-> call.response.value]
    ELSE [pre_state_hash |-> call.request.pre_state_hash,
          effects |-> call.response.value.execution_effect.transforms,
          post_state_hash |-> call.response.value.post_state_hash]

IsWrite(call) == call.op \in {"apply_effect", "commit_step"} /\ call.response.ok

\* the writes of the run so far, in the order of the calls
Writes ==
    LET written == SelectSeq(calls, IsWrite)
    IN [k \in 1 .. Len(written) |-> WriteOf(written[k])]

StepCommitted == \E k \in StepCalls : calls[k].response.ok

\* C14: there is no rollback. The store holds every write the run has made so
\* far and a step of the run never removes or changes one; when the run ends
\* with an error at deploy number k or at the step, the effects of the deploys
\* before k, or of all deploys, are still in the store and no block is
\* returned; a block is returned only when the effects of every deploy, and
\* the step if the block has an era report, were committed.
C14_NoRollback ==
    /\ [](/\ global_state = Writes
          /\ outcome.status = "Err" =>
                /\ Len(global_state) >= next_deploy
                /\ \A j \in 1 .. next_deploy :
                       /\ global_state[j].effects =
                              calls[CHOOSE k \in Commits : calls[k].deploy = j].effects
                       /\ global_state[j].post_state_hash = CommittedRoot(j)
                /\ "block" \notin DOMAIN outcome
          /\ outcome.status = "Ok" =>
                /\ AllDeploysCommitted
                /\ finalized_block.era_report.some => StepCommitted
                /\ Len(global_state) =
                       Len(deploys) + (IF finalized_block.era_report.some THEN 1 ELSE 0))
    /\ [][IsPrefix(global_state, global_state')]_vars

\* the run ended with an error at the step after both deploys were committed,
\* and both commits are in the store
C14_Witness ==
    /\ outcome.status = "Err"
    /\ StepCalls # {}
    /\ ~StepCommitted
    /\ Len(deploys) = 2
    /\ Len(global_state) = 2
    /\ global_state[2].pre_state_hash = global_state[1].post_state_hash

----------------------------------------------------------------------------
\* the number of the last deploy of the block with this hash
LastWithId(id) ==
    CHOOSE j \in 1 .. Len(deploys) :
        /\ deploys[j].id = id
        /\ \A i \in 1 .. Len(deploys) : deploys[i].id = id => i <= j

DistinctIds == \A i, j \in 1 .. Len(deploys) : deploys[i].id = deploys[j].id => i = j

\* C15: on success the keys of the result map are the hashes of the executed
\* deploys, one entry per deploy when the hashes are distinct. When deploys
\* share a hash every one of them is still executed and committed, but the map
\* has one entry for the hash: each commit stores the header and the result of
\* the deploy just committed under its hash, replacing an earlier entry and
\* leaving the other keys alone, so the entry is that of the later deploy.
C15_ResultMap ==
    /\ [](outcome.status = "Ok" =>
            LET map == outcome.execution_results
            IN /\ DOMAIN map = {deploys[j].id : j \in 1 .. Len(deploys)}
               /\ DistinctIds => Cardinality(DOMAIN map) = Len(deploys)
               /\ Cardinality(CallsOf("run_execute")) = Len(deploys)
               /\ Cardinality(Commits) = Len(deploys)
               /\ \A j \in 1 .. Len(deploys) :
                      \E k \in Commits :
                          /\ calls[k].deploy = j
                          /\ \E w \in 1 .. Len(global_state) :
                                 global_state[w] = WriteOf(calls[k])
               /\ \A id \in DOMAIN map :
                      LET j == LastWithId(id)
                          k == CHOOSE k \in Commits : calls[k].deploy = j
                      IN /\ map[id][1] = deploys[j].header
                         /\ map[id][2].effect.transforms = calls[k].effects)
    /\ [][next_deploy' # next_deploy =>
            LET deploy == deploys[next_deploy']
            IN /\ next_deploy' = next_deploy + 1
               /\ DOMAIN execution_results' = DOMAIN execution_results \cup {deploy.id}
               /\ execution_results'[deploy.id] =
                      <<deploy.header, ExecutionResultFrom(result.value[1])>>
               /\ \A id \in DOMAIN execution_results \ {deploy.id} :
                      execution_results'[id] = execution_results[id]]_vars

\* a block of two deploys with the same hash succeeded: two executions, two
\* commits with different effects, one entry, holding the second one's effect
C15_Witness ==
    /\ outcome.status = "Ok"
    /\ Len(deploys) = 2
    /\ deploys[1].id = deploys[2].id
    /\ Cardinality(DOMAIN outcome.execution_results) = 1
    /\ Cardinality(CallsOf("run_execute")) = 2
    /\ Len(global_state) >= 2
    /\ global_state[1].effects # global_state[2].effects
    /\ outcome.execution_results[deploys[2].id][2].effect.transforms = global_state[2].effects

----------------------------------------------------------------------------
HeightMismatch == execution_pre_state.next_block_height # finalized_block.height

\* C16: the height precondition is checked in debug builds only. When the
\* pre-state's next block height differs from the block's height, a build with
\* debug assertions aborts before any engine call and any commit; a build
\* without them never aborts, returns an error only for a failed engine call
\* or a result list that is not a single result, and otherwise executes and
\* commits every deploy and returns a block with the finalized block's height.
C16_HeightCheckDebugOnly ==
    HeightMismatch /\ pc # "start" =>
        IF debug_assertions
        THEN /\ pc = "done"
             /\ outcome = Panicked
             /\ calls = <<>>
             /\ global_state = <<>>
        ELSE /\ outcome.status # "Panic"
             /\ outcome.status = "Err" =>
                    \/ outcome.error = "MoreThanOneExecutionResult"
                    \/ \E k \in FailedCalls : calls[k].response.error = outcome.error
             /\ pc = "done" /\ outcome.status # "Err" =>
                    /\ outcome.status = "Ok"
                    /\ AllDeploysCommitted
                    /\ Cardinality(CallsOf("run_execute")) = Len(deploys)
                    /\ outcome.block.height = finalized_block.height
                    /\ outcome.block.height # execution_pre_state.next_block_height

\* without debug assertions a block of two deploys was built at the block's
\* height although the pre-state expected another height
C16_Witness ==
    /\ HeightMismatch
    /\ ~debug_assertions
    /\ outcome.status = "Ok"
    /\ Len(deploys) = 2
    /\ Cardinality(Commits) = 2
    /\ outcome.block.height = finalized_block.height

----------------------------------------------------------------------------
\* C18: the engine calls of a run are, in this order, execute of deploy 1,
\* commit of deploy 1, execute of deploy 2, commit of deploy 2 and so on,
\* followed at most by the step. Each execute request carries exactly one
\* deploy, the one whose turn it is; no deploy is executed twice or committed
\* twice; a commit follows the successful execute of the same deploy; a call
\* that failed is the last call of the run; on success there are as many
\* execute calls and as many commits as the block has deploys.
C18_ExactlyOnceInOrder ==
    /\ \A k \in 1 .. Len(calls) :
         IF calls[k].op = "commit_step"
         THEN /\ k = Len(calls)
              /\ k = 2 * Len(deploys) + 1
         ELSE IF k % 2 = 1
         THEN /\ calls[k].op = "run_execute"
              /\ calls[k].deploy = (k + 1) \div 2
              /\ calls[k].deploy <= Len(deploys)
              /\ Len(calls[k].request.deploys) = 1
              /\ calls[k].request.deploys[1] = deploys[calls[k].deploy].id
         ELSE /\ calls[k].op = "apply_effect"
              /\ calls[k].deploy = k \div 2
              /\ calls[k - 1].op = "run_execute"
              /\ calls[k - 1].response.ok
    /\ \A j \in 1 .. Len(deploys) :
         /\ Cardinality({k \in CallsOf("run_execute") : calls[k].deploy = j}) <= 1
         /\ Cardinality({k \in CallsOf("apply_effect") : calls[k].deploy = j}) <= 1
    /\ \A k \in FailedCalls : k = Len(calls)
    /\ outcome.status = "Ok" =>
         /\ Cardinality(CallsOf("run_execute")) = Len(deploys)
         /\ Cardinality(Commits) = Len(deploys)
         /\ Cardinality(CallsOf("apply_effect")) = Len(deploys)

\* a block of two deploys succeeded after execute, commit, execute, commit
C18_Witness ==
    /\ outcome.status = "Ok"
    /\ Len(deploys) = 2
    /\ Len(calls) >= 4
    /\ calls[1].op = "run_execute" /\ calls[1].deploy = 1
    /\ calls[2].op = "apply_effect" /\ calls[2].deploy = 1
    /\ calls[3].op = "run_execute" /\ calls[3].deploy = 2
    /\ calls[4].op = "apply_effect" /\ calls[4].deploy = 2

----------------------------------------------------------------------------
Terminal == pc = "done"

\* C19: provided every engine call returns, every run ends: it reaches a
\* terminal state, which is a returned block, the first error, or the abort of
\* the debug assertion on the height; at no point has the run made more
\* execute calls or more commits than the block has deploys, or more than one
\* step; a terminal state is left by no step, so no call follows it.
C19_Termination ==
    /\ <>Terminal
    /\ [](/\ Cardinality(CallsOf("run_execute")) <= Len(deploys)
          /\ Cardinality(CallsOf("apply_effect")) <= Len(deploys)
          /\ Cardinality(StepCalls) <= 1
          /\ Terminal =>
                /\ outcome.status \in {"Ok", "Err", "Panic"}
                /\ outcome.status = "Panic" => debug_assertions /\ HeightMismatch
                /\ outcome.status = "Ok" => "block" \in DOMAIN outcome
                /\ outcome.status = "Err" => FailedCalls \subseteq {Len(calls)}
          /\ ~Terminal => outcome = Running)
    /\ [][~Terminal]_vars

\* a run over two deploys and a step has ended after five calls
C19_Witness ==
    /\ Terminal
    /\ Len(deploys) = 2
    /\ Cardinality(CallsOf("run_execute")) = 2
    /\ Cardinality(CallsOf("apply_effect")) = 2
    /\ Cardinality(StepCalls) = 1

----------------------------------------------------------------------------
\* C17 as the claim states it: whatever operation is applied to an AuctionInfo,
\* every allocation it held is still there at the same position.
C17_AppendOnly == [][IsPrefix(auction_info, auction_info')]_vars

\* C17: an AuctionInfo starts empty; a push through the mutable reference
\* adds one allocation at the end and keeps every allocation already present
\* at its position, and to_bytes, from_bytes and select leave the sequence as it
\* is. (An assignment through the mutable reference is the one operation that
\* is not bound by this.)
C17_AppendOnlyUnlessAssigned ==
    /\ auction_info = <<>>
    /\ [][PushAllocation =>
            /\ IsPrefix(auction_info, auction_info')
            /\ Len(auction_info') = Len(auction_info) + 1]_vars
    /\ [][(\/ EncodeAuctionInfo
           \/ EncodeAllocation
           \/ DecodeAuctionInfo
           \/ DecodeAllocation
           \/ SelectAllocations) => auction_info' = auction_info]_vars

\* two allocations were pushed, then the value was encoded, decoded and
\* selected from, and both are still where they were pushed
C17_Witness ==
    /\ Len(auction_info) = 2
    /\ auction_info[1] # auction_info[2]
    /\ selected.some
    /\ selected.value.allocations = <<auction_info[2]>>

----------------------------------------------------------------------------
Reverse(ordering) ==
    IF ordering = "Less" THEN "Greater" ELSE IF ordering = "Greater" THEN "Less" ELSE "Equal"

\* C20: the comparison of allocations is a total order: comparing the other
\* way round gives the reverse ordering, Less is transitive, and two
\* allocations compare Equal exactly when they are the same value. Every
\* Validator is Less than every Delegator; two Validators compare by their
\* validator keys and, those being equal, by their amounts; two Delegators
\* compare by their delegator keys, then their validator keys, then their
\* amounts.
C20_TotalOrder ==
    compared.some /\ compared.value.orderings.some =>
        LET a == compared.value.left
            b == compared.value.middle
            c == compared.value.right
            ab == compared.value.orderings.value.left_middle
            ba == compared.value.orderings.value.middle_left
            bc == compared.value.orderings.value.middle_right
            ac == compared.value.orderings.value.left_right
        IN /\ ab \in {"Less", "Equal", "Greater"}
           /\ ba = Reverse(ab)
           /\ ab = "Equal" <=> a = b
           /\ ab = "Less" /\ bc = "Less" => ac = "Less"
           /\ ab # "Greater" /\ bc # "Greater" => ac # "Greater"
           /\ a.variant = "Validator" /\ b.variant = "Delegator" => ab = "Less"
           /\ a.variant = "Delegator" /\ b.variant = "Validator" => ab = "Greater"
           /\ a.variant = "Validator" /\ b.variant = "Validator" =>
                 ab = IF a.validator_public_key # b.validator_public_key
                      THEN PublicKeyCmp(a.validator_public_key, b.validator_public_key)
                      ELSE NumberCmp(a.amount, b.amount)
           /\ a.variant = "Delegator" /\ b.variant = "Delegator" =>
                 ab = IF a.delegator_public_key # b.delegator_public_key
                      THEN PublicKeyCmp(a.delegator_public_key, b.delegator_public_key)
                      ELSE IF a.validator_public_key # b.validator_public_key
                      THEN PublicKeyCmp(a.validator_public_key, b.validator_public_key)
                      ELSE NumberCmp(a.amount, b.amount)

\* a Validator was found Less than a Delegator, and that one Less than a
\* Delegator whose delegator key is greater although its validator key and
\* its amount are smaller
C20_Witness ==
    /\ compared.some
    /\ compared.value.orderings.some
    /\ compared.value.left.variant = "Validator"
    /\ compared.value.middle.variant = "Delegator"
    /\ compared.value.right.variant = "Delegator"
    /\ compared.value.orderings.value.left_middle = "Less"
    /\ compared.value.orderings.value.middle_right = "Less"
    /\ compared.value.orderings.value.left_right = "Less"
    /\ PublicKeyCmp(compared.value.middle.delegator_public_key,
                    compared.value.right.delegator_public_key) = "Less"
    /\ PublicKeyCmp(compared.value.middle.validator_public_key,
                    compared.value.right.validator_public_key) = "Greater"
    /\ compared.value.middle.amount > compared.value.right.amount

----------------------------------------------------------------------------
====
